---- MODULE Spec2Model ----
(***************************************************************************)
(* AI-LTH frontend: App (tabs, hero, New Chat), ChatBox, ImageUploader,    *)
(* CameraCapture and Sidebar as one state machine.                         *)
(*                                                                         *)
(* React semantics used throughout:                                        *)
(*  - a component that is not rendered by App is unmounted; its useState   *)
(*    and useRef values are discarded and a later mount starts from the    *)
(*    useState initial values;                                             *)
(*  - a state setter called by a continuation of an unmounted instance     *)
(*    changes nothing;                                                     *)
(*  - a disabled button or input delivers no click/change/submit event.    *)
(* JS null is modelled by "null" for strings and by 0 for identities.      *)
(***************************************************************************)
EXTENDS Integers, Sequences, FiniteSets, TLC

VARIABLES
    app,            \* App.jsx useState: activeTab, showHero, chatResetTrigger
    chatBox,        \* ChatBox useState: messages, input, loading
    imageUploader,  \* ImageUploader useState: selectedFile, preview, result, loading, error
    cameraCapture,  \* CameraCapture useState + streamRef
    sidebar,        \* Sidebar useState chatHistory + position of its mount effects
    localStorage,   \* the item stored under 'ai_lth_chat_history'
    requests,       \* axios requests in flight
    nextReq,        \* identity of the next request
    startCalls,     \* startCamera invocations suspended at an await
    liveStreams,    \* camera streams with unstopped tracks
    nextStream,     \* identity of the next MediaStream / captured frame
    autoComplete,   \* AutoComplete: its value prop, useState and its mount fetch
    directory,      \* the medicine names the backend serves at /medicines
    answer,         \* one backend answer handed to the renderers
    shown,          \* what a renderer puts on the screen for that answer
    otherTab,       \* the Sidebar of a second tab of the same browser profile
    voiceInput      \* VoiceInput useState, window's speech capability, its sessions

vars == <<app, chatBox, imageUploader, cameraCapture, sidebar, localStorage,
          requests, nextReq, startCalls, liveStreams, nextStream,
          autoComplete, directory, answer, shown, otherTab, voiceInput>>

\* the state outside the App tree: AutoComplete and VoiceInput are mounted by
\* no component of App, the renderers are studied on one answer at a time, and
\* the second tab is another page
offApp == <<autoComplete, directory, answer, shown, otherTab, voiceInput>>
appVars == <<app, chatBox, imageUploader, cameraCapture, sidebar, localStorage,
             requests, nextReq, startCalls, liveStreams, nextStream>>

(***************************************************************************)
(* Bounds                                                                  *)
(***************************************************************************)
MaxRequests == 2
MaxStarts == 2
MaxResets == 1
MaxChats == 2
MaxHistory == 3
MaxAttempts == 2

Null == "null"

(***************************************************************************)
(* Text: a string is a sequence of characters; trim() strips blanks at     *)
(* both ends.                                                              *)
(***************************************************************************)
TextInputs == { <<>>, <<" ">>, <<"a">>, <<" ", "a">> }

RECURSIVE TrimStart(_)
TrimStart(s) == IF s # <<>> /\ Head(s) = " " THEN TrimStart(Tail(s)) ELSE s

RECURSIVE TrimEnd(_)
TrimEnd(s) ==
    IF s # <<>> /\ s[Len(s)] = " " THEN TrimEnd(SubSeq(s, 1, Len(s) - 1)) ELSE s

Trim(s) == TrimEnd(TrimStart(s))

(***************************************************************************)
(* Backend outcomes.  A success payload is named by a key of               *)
(* PayloadFields; a failure is an axios error.                             *)
(***************************************************************************)
PayloadFields ==
    [ P1 |-> [ai_explanation |-> "AI text", description |-> "", explanation |-> ""],
      P2 |-> [ai_explanation |-> "", description |-> "", explanation |-> ""] ]

Payloads == DOMAIN PayloadFields

\* error.response?.data?.message, error.response?.data?.suggestion, error.message,
\* error.response?.status (0: no response was received)
AxiosErrors ==
    { [message |-> "No match found", suggestion |-> "",
       errMessage |-> "Request failed with status code 404", status |-> 404],
      [message |-> "", suggestion |-> "Did you mean Panadol?",
       errMessage |-> "Request failed with status code 404", status |-> 404],
      [message |-> "", suggestion |-> "",
       errMessage |-> "Request failed with status code 404", status |-> 404],
      [message |-> "", suggestion |-> "",
       errMessage |-> "Request failed with status code 500", status |-> 500],
      [message |-> "", suggestion |-> "", errMessage |-> "Network Error", status |-> 0] }

\* JS a || b on strings: the empty string is falsy
Or2(a, b) == IF a # "" THEN a ELSE b

ChatFallback == "Sorry, I could not find information about that medicine. Please check the spelling or try another name."
NoExplanation == "No explanation available"

(***************************************************************************)
(* Initial (useState) values of each component                             *)
(***************************************************************************)
Tabs == {"chat", "image", "camera"}
Files == {1, 2}          \* files the user can pick; 0 is "no file"
Frames == {1, 2}         \* still frames the video can show; 0 is "no capture"
ChatIds == 1..MaxChats   \* ids of stored session summaries

AppInit == [activeTab |-> "chat", showHero |-> TRUE, chatResetTrigger |-> 0]

ChatBoxInit == [messages |-> <<>>, input |-> <<>>, loading |-> FALSE]

\* resultOf is not state of the code: it records the image whose upload
\* produced the result held (0: none), for the properties
ImageUploaderInit ==
    [selectedFile |-> 0, preview |-> 0, result |-> Null, loading |-> FALSE, error |-> Null,
     resultOf |-> 0]

CameraCaptureInit ==
    [streaming |-> FALSE, captured |-> 0, result |-> Null, loading |-> FALSE,
     error |-> Null, streamRef |-> 0, resultOf |-> 0]

\* deleted is not state of the code: it records the id whose delete button was
\* clicked last (0: none), for the properties
SidebarInit ==
    [chatHistory |-> <<>>, pc |-> "mounted", loaded |-> FALSE, pending |-> <<>>,
     deleted |-> 0]

(***************************************************************************)
(* The durable record.  getItem returns null when the key is absent;       *)
(* JSON.stringify / JSON.parse map a list of plain summaries to its text   *)
(* and back.                                                               *)
(***************************************************************************)
Summary(i) == [id |-> i, title |-> "chat"]

RECURSIVE SeqsUpTo(_, _)
SeqsUpTo(S, n) ==
    IF n = 0 THEN { <<>> }
    ELSE LET shorter == SeqsUpTo(S, n - 1)
         IN  shorter \cup { Append(q, x) : q \in shorter, x \in S }

Histories == SeqsUpTo({ Summary(i) : i \in ChatIds }, MaxHistory)

JSONstringify(list) == [json |-> list]
JSONparse(text) == text.json

NoItem == [present |-> FALSE, value |-> JSONstringify(<<>>)]
setItem(text) == [present |-> TRUE, value |-> text]
getItem == IF localStorage.present THEN localStorage.value ELSE JSONstringify(<<>>)
\* `if (savedHistory)`: null is falsy, every JSON text of a list is truthy
Truthy(store) == store.present

StoredList(store) == IF store.present THEN JSONparse(store.value) ELSE <<>>

InitialStores == { NoItem } \cup { setItem(JSONstringify(h)) : h \in Histories }

(***************************************************************************)
(* Which component App renders                                             *)
(***************************************************************************)
ChatMounted(a) == (~a.showHero \/ a.activeTab # "chat") /\ a.activeTab = "chat"
ImageMounted(a) == (~a.showHero \/ a.activeTab # "chat") /\ a.activeTab = "image"
CameraMounted(a) == (~a.showHero \/ a.activeTab # "chat") /\ a.activeTab = "camera"

Mounted(owner, a) ==
    CASE owner = "chat" -> ChatMounted(a)
      [] owner = "image" -> ImageMounted(a)
      [] owner = "camera" -> CameraMounted(a)

\* Reset effect of ChatBox: runs on mount and whenever resetTrigger changes
ResetEffect(cb, trigger) ==
    IF trigger # 0 THEN [cb EXCEPT !.messages = <<>>, !.input = <<>>] ELSE cb

\* continuations that outlive their instance and still reach the state
StillAttached(set, a2) == set

\* The continuations of an instance that goes away keep running but their
\* setters no longer reach any state: they are marked orphan.
Orphaned(set, a2) ==
    { IF Mounted(x.owner, app) /\ ~Mounted(x.owner, a2)
        THEN [x EXCEPT !.orphan = TRUE] ELSE x : x \in set }

\* App re-renders with state a2: components are mounted, kept or unmounted
Render(a2) ==
    /\ app' = a2
    /\ chatBox' =
         IF ChatMounted(app) /\ ChatMounted(a2)
           THEN IF a2.chatResetTrigger # app.chatResetTrigger
                  THEN ResetEffect(chatBox, a2.chatResetTrigger) ELSE chatBox
           ELSE IF ChatMounted(a2) THEN ResetEffect(ChatBoxInit, a2.chatResetTrigger)
           ELSE ChatBoxInit
    /\ imageUploader' =
         IF ImageMounted(app) /\ ImageMounted(a2) THEN imageUploader ELSE ImageUploaderInit
    /\ cameraCapture' =
         IF CameraMounted(app) /\ CameraMounted(a2) THEN cameraCapture ELSE CameraCaptureInit
    /\ requests' = Orphaned(requests, a2)
    /\ startCalls' = Orphaned(startCalls, a2)

\* React runs the mount effects before it delivers any user event
Ready == sidebar.pc = "idle"

(***************************************************************************)
(* App                                                                     *)
(***************************************************************************)
SetActiveTab(t) ==
    /\ Ready
    /\ Render([app EXCEPT !.activeTab = t])
    /\ UNCHANGED <<sidebar, localStorage, nextReq, liveStreams, nextStream>>
    /\ UNCHANGED offApp

BackToHome ==
    /\ Ready
    /\ ~app.showHero /\ app.activeTab = "chat"
    /\ Render([app EXCEPT !.showHero = TRUE])
    /\ UNCHANGED <<sidebar, localStorage, nextReq, liveStreams, nextStream>>
    /\ UNCHANGED offApp

handleStartChat ==
    /\ Ready
    /\ app.showHero /\ app.activeTab = "chat"
    /\ Render([app EXCEPT !.showHero = FALSE])
    /\ UNCHANGED <<sidebar, localStorage, nextReq, liveStreams, nextStream>>
    /\ UNCHANGED offApp

NewChatState(a) ==
    [a EXCEPT !.showHero = TRUE, !.activeTab = "chat",
              !.chatResetTrigger = a.chatResetTrigger + 1]

handleNewChat ==
    /\ Ready
    /\ app.chatResetTrigger < MaxResets
    /\ Render(NewChatState(app))
    /\ UNCHANGED <<sidebar, localStorage, nextReq, liveStreams, nextStream>>
    /\ UNCHANGED offApp

(***************************************************************************)
(* Requests: query is the text of a POST /query, file the file or frame   *)
(* of a POST /image (0 for a text query).                                  *)
(***************************************************************************)
Request(owner, query, file) ==
    [id |-> nextReq, owner |-> owner, query |-> query, file |-> file, orphan |-> FALSE]

\* mutant of queryMedicine: the request is sent a second time
queryMedicineWithRetry(query) ==
    { Request("chat", query, 0), [Request("chat", query, 0) EXCEPT !.id = nextReq + 1] }

\* api.js: one axios.post per call
queryMedicine(query) == { Request("chat", query, 0) }
uploadImage(owner, file) == { Request(owner, <<>>, file) }

Issue(new) ==
    /\ nextReq <= MaxRequests
    /\ requests' = requests \cup new
    /\ nextReq' = nextReq + Cardinality(new)

(***************************************************************************)
(* ChatBox                                                                 *)
(***************************************************************************)
\* a message; turn is the handleSubmit invocation whose closure built it
UserMessage(text, turn) ==
    [type |-> "user", content |-> text, error |-> FALSE, data |-> Null, turn |-> turn]

AiMessage(p, turn) ==
    LET response == PayloadFields[p]
    IN  [type |-> "ai",
         content |-> Or2(response.ai_explanation,
                         Or2(response.description,
                             Or2(response.explanation, NoExplanation))),
         error |-> FALSE, data |-> p, turn |-> turn]

ErrorMessage(e, turn) ==
    [type |-> "ai", content |-> Or2(e.message, Or2(e.suggestion, ChatFallback)),
     error |-> TRUE, data |-> Null, turn |-> turn]

ChatSetInput(v) ==
    /\ Ready
    /\ ChatMounted(app)
    /\ ~chatBox.loading                 \* the input is disabled while loading
    /\ chatBox' = [chatBox EXCEPT !.input = v]
    /\ UNCHANGED <<app, imageUploader, cameraCapture, sidebar, localStorage,
                   requests, nextReq, startCalls, liveStreams, nextStream>>
    /\ UNCHANGED offApp

\* a guard that rejects nothing
SubmitRejectedNever(cb) == FALSE

\* a guard that tests the input without trimming it
SubmitRejectedUntrimmed(cb) == cb.input = <<>> \/ cb.loading

\* if (!input.trim() || loading) return
SubmitRejected(cb) == Trim(cb.input) = <<>> \/ cb.loading

SubmitAccepted ==
    /\ app' = IF Len(chatBox.messages) = 0 THEN [app EXCEPT !.showHero = FALSE] ELSE app
    /\ chatBox' = [chatBox EXCEPT
                     !.messages = Append(@, UserMessage(chatBox.input, nextReq)),
                     !.input = <<>>,
                     !.loading = TRUE]
    /\ Issue(queryMedicine(chatBox.input))

handleSubmit ==
    /\ Ready
    /\ ChatMounted(app)
    /\ IF SubmitRejected(chatBox)
         THEN UNCHANGED <<app, chatBox, requests, nextReq>>
         ELSE SubmitAccepted
    /\ UNCHANGED <<imageUploader, cameraCapture, sidebar, localStorage,
                   startCalls, liveStreams, nextStream>>
    /\ UNCHANGED offApp

\* mutant of QueryFulfilledState: the answer is put in front of the log
QueryFulfilledPrepends(cb, r, p) ==
    [cb EXCEPT !.messages = <<AiMessage(p, r.id)>> \o @, !.loading = FALSE]

\* try-branch after `await queryMedicine(input)`, then finally
QueryFulfilledState(cb, r, p) ==
    [cb EXCEPT !.messages = Append(@, AiMessage(p, r.id)), !.loading = FALSE]

\* catch-branch, then finally
QueryRejectedState(cb, r, e) ==
    [cb EXCEPT !.messages = Append(@, ErrorMessage(e, r.id)), !.loading = FALSE]

QueryFulfilled(r, p) ==
    /\ r \in requests /\ r.owner = "chat"
    /\ requests' = requests \ {r}
    /\ chatBox' = IF r.orphan THEN chatBox ELSE QueryFulfilledState(chatBox, r, p)
    /\ UNCHANGED <<app, imageUploader, cameraCapture, sidebar, localStorage,
                   nextReq, startCalls, liveStreams, nextStream>>
    /\ UNCHANGED offApp

QueryRejected(r, e) ==
    /\ r \in requests /\ r.owner = "chat"
    /\ requests' = requests \ {r}
    /\ chatBox' = IF r.orphan THEN chatBox ELSE QueryRejectedState(chatBox, r, e)
    /\ UNCHANGED <<app, imageUploader, cameraCapture, sidebar, localStorage,
                   nextReq, startCalls, liveStreams, nextStream>>
    /\ UNCHANGED offApp

(***************************************************************************)
(* ImageUploader                                                           *)
(***************************************************************************)
ImageFallback == "Failed to process image. Please try again."
CameraFallback == "Failed to analyze image. Please try again."

\* err.response?.data?.message || err.response?.data?.suggestion || err.message || fallback
UploadErrorText(e, fallback) ==
    Or2(e.message, Or2(e.suggestion, Or2(e.errMessage, fallback)))

\* e.target.files[0]; file = 0 when the dialog is cancelled
handleFileSelect(file) ==
    /\ Ready
    /\ ImageMounted(app)
    /\ imageUploader' =
         IF file # 0
           THEN [imageUploader EXCEPT !.selectedFile = file, !.preview = file,
                                      !.result = Null, !.error = Null,
                                      !.resultOf = 0]
           ELSE imageUploader
    /\ UNCHANGED <<app, chatBox, cameraCapture, sidebar, localStorage, requests,
                   nextReq, startCalls, liveStreams, nextStream>>
    /\ UNCHANGED offApp

\* mutant of UploadButtonEnabled: the button is not disabled while loading
UploadButtonNeverDisabled(iu) == iu.preview # 0

\* the Analyze Image button is rendered with the preview, disabled={loading}
UploadButtonEnabled(iu) == iu.preview # 0 /\ ~iu.loading

handleUpload ==
    /\ Ready
    /\ ImageMounted(app)
    /\ UploadButtonEnabled(imageUploader)
    /\ IF imageUploader.selectedFile = 0
         THEN UNCHANGED <<imageUploader, requests, nextReq>>
         ELSE /\ imageUploader' = [imageUploader EXCEPT !.loading = TRUE, !.error = Null]
              /\ Issue(uploadImage("image", imageUploader.selectedFile))
    /\ UNCHANGED <<app, chatBox, cameraCapture, sidebar, localStorage,
                   startCalls, liveStreams, nextStream>>
    /\ UNCHANGED offApp

UploadFulfilled(r, p) ==
    /\ r \in requests /\ r.owner = "image"
    /\ requests' = requests \ {r}
    /\ imageUploader' =
         IF r.orphan THEN imageUploader
         ELSE [imageUploader EXCEPT !.result = p, !.loading = FALSE,
                                    !.resultOf = r.file]
    /\ UNCHANGED <<app, chatBox, cameraCapture, sidebar, localStorage,
                   nextReq, startCalls, liveStreams, nextStream>>
    /\ UNCHANGED offApp

UploadRejected(r, e) ==
    /\ r \in requests /\ r.owner = "image"
    /\ requests' = requests \ {r}
    /\ imageUploader' =
         IF r.orphan THEN imageUploader
         ELSE [imageUploader EXCEPT !.error = UploadErrorText(e, ImageFallback),
                                    !.loading = FALSE]
    /\ UNCHANGED <<app, chatBox, cameraCapture, sidebar, localStorage,
                   nextReq, startCalls, liveStreams, nextStream>>
    /\ UNCHANGED offApp

(***************************************************************************)
(* CameraCapture.  debugInfo (a status line that no handler reads) is not  *)
(* modelled.  The video element exists while the committed render has      *)
(* streaming = true, so videoRef.current is non-null exactly then.  The    *)
(* 50 ms timer and the getUserMedia promise are consecutive awaits with    *)
(* nothing between them: one suspended call.                               *)
(***************************************************************************)
CameraErrors == { "Permission denied" }

\* `Camera error: ${err.message}`
CameraErrorText(msg) ==
    CASE msg = "Permission denied" -> "Camera error: Permission denied"

StartCall == [id |-> nextStream, owner |-> "camera", orphan |-> FALSE]

\* startCamera up to its first await
startCameraState(cc) == [cc EXCEPT !.error = Null, !.streaming = TRUE]

Suspend ==
    /\ nextStream <= MaxStarts
    /\ startCalls' = startCalls \cup { StartCall }
    /\ nextStream' = nextStream + 1

\* the Start Camera button
startCamera ==
    /\ Ready
    /\ CameraMounted(app)
    /\ ~cameraCapture.streaming /\ cameraCapture.captured = 0
    /\ cameraCapture' = startCameraState(cameraCapture)
    /\ Suspend
    /\ UNCHANGED <<app, chatBox, imageUploader, sidebar, localStorage, requests,
                   nextReq, liveStreams>>
    /\ UNCHANGED offApp

\* getUserMedia resolved with stream c.id; the rest of the try block
GrantedState(cc, stream) ==
    IF cc.streaming
      THEN [cc EXCEPT !.streamRef = stream]
      ELSE [cc EXCEPT !.streamRef = stream, !.streaming = FALSE]

CameraGranted(c) ==
    /\ c \in startCalls
    /\ startCalls' = startCalls \ {c}
    /\ liveStreams' = liveStreams \cup {c.id}
    /\ cameraCapture' = IF c.orphan THEN cameraCapture ELSE GrantedState(cameraCapture, c.id)
    /\ UNCHANGED <<app, chatBox, imageUploader, sidebar, localStorage, requests,
                   nextReq, nextStream>>
    /\ UNCHANGED offApp

\* getUserMedia rejected (or navigator.mediaDevices missing): the catch block
CameraDenied(c, msg) ==
    /\ c \in startCalls
    /\ startCalls' = startCalls \ {c}
    /\ cameraCapture' =
         IF c.orphan THEN cameraCapture
         ELSE [cameraCapture EXCEPT !.error = CameraErrorText(msg), !.streaming = FALSE]
    /\ UNCHANGED <<app, chatBox, imageUploader, sidebar, localStorage, requests,
                   nextReq, liveStreams, nextStream>>
    /\ UNCHANGED offApp

stopCameraState(cc) ==
    IF cc.streamRef # 0 THEN [cc EXCEPT !.streaming = FALSE] ELSE cc

\* streamRef.current.getTracks().forEach(track => track.stop())
stopCameraTracks(cc, live) ==
    IF cc.streamRef # 0 THEN live \ {cc.streamRef} ELSE live

\* the Stop button of the live view
stopCamera ==
    /\ Ready
    /\ CameraMounted(app)
    /\ cameraCapture.streaming
    /\ cameraCapture' = stopCameraState(cameraCapture)
    /\ liveStreams' = stopCameraTracks(cameraCapture, liveStreams)
    /\ UNCHANGED <<app, chatBox, imageUploader, sidebar, localStorage, requests,
                   nextReq, startCalls, nextStream>>
    /\ UNCHANGED offApp

\* the Capture Photo button of the live view; frame is what the canvas drew
captureImage(frame) ==
    /\ Ready
    /\ CameraMounted(app)
    /\ cameraCapture.streaming
    /\ cameraCapture' = stopCameraState([cameraCapture EXCEPT !.captured = frame])
    /\ liveStreams' = stopCameraTracks(cameraCapture, liveStreams)
    /\ UNCHANGED <<app, chatBox, imageUploader, sidebar, localStorage, requests,
                   nextReq, startCalls, nextStream>>
    /\ UNCHANGED offApp

\* the Analyze button is rendered with the captured image, disabled={loading}
AnalyzeButtonEnabled(cc) == cc.captured # 0 /\ ~cc.loading

analyzeCapture ==
    /\ Ready
    /\ CameraMounted(app)
    /\ AnalyzeButtonEnabled(cameraCapture)
    /\ IF cameraCapture.captured = 0
         THEN UNCHANGED <<cameraCapture, requests, nextReq>>
         ELSE /\ cameraCapture' = [cameraCapture EXCEPT !.loading = TRUE, !.error = Null]
              /\ Issue(uploadImage("camera", cameraCapture.captured))
    /\ UNCHANGED <<app, chatBox, imageUploader, sidebar, localStorage,
                   startCalls, liveStreams, nextStream>>
    /\ UNCHANGED offApp

AnalyzeFulfilled(r, p) ==
    /\ r \in requests /\ r.owner = "camera"
    /\ requests' = requests \ {r}
    /\ cameraCapture' =
         IF r.orphan THEN cameraCapture
         ELSE [cameraCapture EXCEPT !.result = p, !.loading = FALSE,
                                    !.resultOf = r.file]
    /\ UNCHANGED <<app, chatBox, imageUploader, sidebar, localStorage,
                   nextReq, startCalls, liveStreams, nextStream>>
    /\ UNCHANGED offApp

AnalyzeRejected(r, e) ==
    /\ r \in requests /\ r.owner = "camera"
    /\ requests' = requests \ {r}
    /\ cameraCapture' =
         IF r.orphan THEN cameraCapture
         ELSE [cameraCapture EXCEPT !.error = UploadErrorText(e, CameraFallback),
                                    !.loading = FALSE]
    /\ UNCHANGED <<app, chatBox, imageUploader, sidebar, localStorage,
                   nextReq, startCalls, liveStreams, nextStream>>
    /\ UNCHANGED offApp

\* retake up to the first await of the startCamera it calls
retakeState(cc) ==
    startCameraState([cc EXCEPT !.captured = 0, !.result = Null, !.error = Null,
                                !.resultOf = 0])

\* the Retake button, rendered with the captured image
retake ==
    /\ Ready
    /\ CameraMounted(app)
    /\ cameraCapture.captured # 0
    /\ cameraCapture' = retakeState(cameraCapture)
    /\ Suspend
    /\ UNCHANGED <<app, chatBox, imageUploader, sidebar, localStorage, requests,
                   nextReq, liveStreams>>
    /\ UNCHANGED offApp

(***************************************************************************)
(* Sidebar.  App renders <Sidebar onNewChat={handleNewChat} />: the props  *)
(* currentChatId and onSelectChat are not passed and are undefined.        *)
(* undefined is modelled by 0, which is no stored id.                      *)
(***************************************************************************)
currentChatId == 0

\* effect 1 of the mount: read the record, schedule setChatHistory
SidebarLoadEffect ==
    /\ sidebar.pc = "mounted"
    /\ sidebar' =
         IF Truthy(localStorage)
           THEN [sidebar EXCEPT !.pc = "loadRan", !.loaded = TRUE,
                                !.pending = JSONparse(getItem)]
           ELSE [sidebar EXCEPT !.pc = "loadRan"]
    /\ UNCHANGED <<app, chatBox, imageUploader, cameraCapture, localStorage,
                   requests, nextReq, startCalls, liveStreams, nextStream>>
    /\ UNCHANGED offApp

\* effect 2 of the mount: write the chatHistory of the first render
SidebarSaveEffect ==
    /\ sidebar.pc = "loadRan"
    /\ localStorage' = setItem(JSONstringify(sidebar.chatHistory))
    /\ sidebar' = [sidebar EXCEPT !.pc = IF sidebar.loaded THEN "rerender" ELSE "idle"]
    /\ UNCHANGED <<app, chatBox, imageUploader, cameraCapture,
                   requests, nextReq, startCalls, liveStreams, nextStream>>
    /\ UNCHANGED offApp

\* the render caused by setChatHistory, and the save effect it triggers
SidebarRerender ==
    /\ sidebar.pc = "rerender"
    /\ sidebar' = [sidebar EXCEPT !.pc = "idle", !.loaded = FALSE, !.pending = <<>>,
                                  !.chatHistory = sidebar.pending]
    /\ localStorage' = setItem(JSONstringify(sidebar.pending))
    /\ UNCHANGED <<app, chatBox, imageUploader, cameraCapture,
                   requests, nextReq, startCalls, liveStreams, nextStream>>
    /\ UNCHANGED offApp

\* a filter that drops only the first entry of the id
RECURSIVE FilterOutFirst(_, _)
FilterOutFirst(list, chatId) ==
    IF list = <<>> THEN <<>>
    ELSE IF Head(list).id # chatId
           THEN <<Head(list)>> \o FilterOutFirst(Tail(list), chatId)
           ELSE Tail(list)

\* prev.filter(c => c.id !== chatId)
RECURSIVE FilterOut(_, _)
FilterOut(list, chatId) ==
    IF list = <<>> THEN <<>>
    ELSE IF Head(list).id # chatId
           THEN <<Head(list)>> \o FilterOut(Tail(list), chatId)
           ELSE FilterOut(Tail(list), chatId)

\* the delete button of the entry chatId, the save effect of the new list,
\* and New Chat when the entry is the current chat
handleDeleteChat(chatId) ==
    /\ Ready
    /\ \E i \in 1..Len(sidebar.chatHistory) : sidebar.chatHistory[i].id = chatId
    /\ sidebar' = [sidebar EXCEPT !.chatHistory = FilterOut(@, chatId), !.deleted = chatId]
    /\ localStorage' = setItem(JSONstringify(FilterOut(sidebar.chatHistory, chatId)))
    /\ IF currentChatId = chatId
         THEN Render(NewChatState(app))
         ELSE UNCHANGED <<app, chatBox, imageUploader, cameraCapture, requests, startCalls>>
    /\ UNCHANGED <<nextReq, liveStreams, nextStream>>
    /\ UNCHANGED offApp

\* the page is closed or killed at any point and opened again: only the
\* durable record is kept
Restart ==
    /\ app' = AppInit
    /\ chatBox' = ChatBoxInit
    /\ imageUploader' = ImageUploaderInit
    /\ cameraCapture' = CameraCaptureInit
    /\ sidebar' = SidebarInit
    /\ requests' = {}
    /\ nextReq' = 1
    /\ startCalls' = {}
    /\ liveStreams' = {}
    /\ nextStream' = 1
    /\ UNCHANGED localStorage
    /\ UNCHANGED offApp

(***************************************************************************)
(* JSON values as JavaScript sees them.  k is the type of the value, s the *)
(* text of a string or number, a the elements of an array.                 *)
(***************************************************************************)
JsValue(k, s, a) == [k |-> k, s |-> s, a |-> a]
undefined == JsValue("undefined", "", <<>>)
JsNull == JsValue("null", "", <<>>)
JsString(s) == JsValue("string", s, <<>>)
JsNumber(s) == JsValue("number", s, <<>>)
JsObject == JsValue("object", "", <<>>)       \* a nested object, not an array
JsArray(a) == JsValue("array", "", a)

NotAvailable == "Information not available"
NA == "N/A"

\* s[0] of the texts the answers hold
FirstChar(s) ==
    CASE s \in {"Panadol", "Paracetamol", "Pain relief"} -> "P"
      [] s \in {"Nausea", NA} -> "N"
      [] s = NotAvailable -> "I"
      [] s = "Rash" -> "R"
      [] s = "AI text" -> "A"
      [] s = "Description text" -> "D"
      [] s \in {"Explanation text", "Educational use only"} -> "E"
      [] s = "Keep away from children" -> "K"

\* ToBoolean, as && and || and !x apply it
ToBoolean(v) ==
    CASE v.k = "string" -> v.s # ""
      [] v.k = "number" -> v.s # "0"
      [] v.k \in {"array", "object"} -> TRUE
      [] OTHER -> FALSE

\* a || b
JsOr(a, b) == IF ToBoolean(a) THEN a ELSE b

\* v === 'text'
StrictEquals(v, text) == v.k = "string" /\ v.s = text

\* v.length > 0 for a truthy v: undefined > 0 is false
LengthPositive(v) ==
    CASE v.k = "string" -> v.s # ""
      [] v.k = "array" -> Len(v.a) > 0
      [] OTHER -> FALSE

\* v[0] for a truthy v: the first element of an array, the first character
\* of a string, undefined otherwise
At0(v) ==
    CASE v.k = "array" -> IF Len(v.a) > 0 THEN v.a[1] ELSE undefined
      [] v.k = "string" -> IF v.s # "" THEN JsString(FirstChar(v.s)) ELSE undefined
      [] OTHER -> undefined

IsArray(v) == v.k = "array"

\* React refuses an object as a child ("Objects are not valid as a React
\* child"), directly or as an element of an array child
ValidChild(v) ==
    /\ v.k # "object"
    /\ v.k = "array" => \A i \in 1..Len(v.a) : v.a[i].k # "object"

(***************************************************************************)
(* What a component puts on the screen: its parts, each shown or not, with *)
(* the children React is asked to draw; threw when React rejects a child.  *)
(***************************************************************************)
Hidden == [shown |-> FALSE, body |-> <<>>]
Show(body) == [shown |-> TRUE, body |-> body]
When(cond, body) == IF cond THEN Show(body) ELSE Hidden

NoParts ==
    [text |-> Hidden, name |-> Hidden, generic |-> Hidden, manufacturer |-> Hidden,
     description |-> Hidden, uses |-> Hidden, sideEffects |-> Hidden,
     warnings |-> Hidden, disclaimer |-> Hidden]

Painted(kind, parts) ==
    [kind |-> kind, parts |-> parts,
     threw |-> \E f \in DOMAIN parts :
                  /\ parts[f].shown
                  /\ \E i \in 1..Len(parts[f].body) : ~ValidChild(parts[f].body[i])]

\* {v && (...{v}...)}
Optional(v) == When(ToBoolean(v), <<v>>)

\* {v && v !== 'N/A' && (...{v}...)}
UnlessNA(v) == When(ToBoolean(v) /\ ~StrictEquals(v, NA), <<v>>)

(***************************************************************************)
(* MessageBubble                                                           *)
(***************************************************************************)
MessageBubbleUses(data) ==
    When(/\ ToBoolean(data.uses)
         /\ ~StrictEquals(data.uses, NA)
         /\ ~StrictEquals(data.uses, NotAvailable),
         <<data.uses>>)

MessageBubbleSideEffects(data) ==
    When(/\ ToBoolean(data.side_effects)
         /\ LengthPositive(data.side_effects)
         /\ ~StrictEquals(At0(data.side_effects), NotAvailable),
         IF IsArray(data.side_effects) THEN data.side_effects.a
                                       ELSE <<data.side_effects>>)

\* message: [type, content, error, hasData, data]; hasData is message.data
\* being an object
MessageBubble(message) ==
    LET isUser == message.type = "user"
        isError == message.error
        data == message.data
    IN  IF isUser \/ isError \/ ~message.hasData
          THEN Painted(IF isUser THEN "user" ELSE IF isError THEN "error" ELSE "text",
                       [NoParts EXCEPT !.text = Show(<<message.content>>)])
          ELSE Painted("structured",
                 [text |-> Hidden,
                  name |-> Show(<<data.medicine_name>>),
                  generic |-> UnlessNA(data.generic_name),
                  manufacturer |-> UnlessNA(data.manufacturer),
                  description |-> Optional(data.description),
                  uses |-> MessageBubbleUses(data),
                  sideEffects |-> MessageBubbleSideEffects(data),
                  warnings |-> Optional(data.warnings),
                  disclaimer |-> Optional(data.disclaimer)])

(***************************************************************************)
(* The result views of ImageUploader and CameraCapture                     *)
(***************************************************************************)
ImageUploaderUses(result) ==
    When(/\ ToBoolean(result.uses)
         /\ ~StrictEquals(result.uses, NA)
         /\ ~StrictEquals(result.uses, NotAvailable),
         <<result.uses>>)

ImageUploaderSideEffects(result) ==
    When(/\ ToBoolean(result.side_effects)
         /\ IsArray(result.side_effects)
         /\ ~StrictEquals(At0(result.side_effects), NotAvailable),
         result.side_effects.a)

\* error: the error text or Null; hasResult: result is an object
ImageUploaderView(error, hasResult, result) ==
    Painted("image",
      IF hasResult
        THEN [text |-> When(error # Null, <<JsString(error)>>),
              name |-> Show(<<result.medicine_name>>),
              generic |-> UnlessNA(result.generic_name),
              manufacturer |-> UnlessNA(result.manufacturer),
              description |-> Optional(result.description),
              uses |-> ImageUploaderUses(result),
              sideEffects |-> ImageUploaderSideEffects(result),
              warnings |-> Optional(result.warnings),
              disclaimer |-> Optional(result.disclaimer)]
        ELSE [NoParts EXCEPT !.text = When(error # Null, <<JsString(error)>>)])

\* a uses section that tests 'N/A' only
CameraCaptureUsesUnlessNA(result) == UnlessNA(result.uses)

CameraCaptureUses(result) ==
    When(/\ ToBoolean(result.uses)
         /\ ~StrictEquals(result.uses, NA)
         /\ ~StrictEquals(result.uses, NotAvailable),
         <<result.uses>>)

CameraCaptureSideEffects(result) ==
    When(/\ ToBoolean(result.side_effects)
         /\ IsArray(result.side_effects)
         /\ ~StrictEquals(At0(result.side_effects), NotAvailable),
         result.side_effects.a)

CameraCaptureView(error, hasResult, result) ==
    Painted("camera",
      IF hasResult
        THEN [text |-> When(error # Null, <<JsString(error)>>),
              name |-> Show(<<result.medicine_name>>),
              generic |-> UnlessNA(result.generic_name),
              manufacturer |-> UnlessNA(result.manufacturer),
              description |-> Optional(result.description),
              uses |-> CameraCaptureUses(result),
              sideEffects |-> CameraCaptureSideEffects(result),
              warnings |-> Optional(result.warnings),
              disclaimer |-> Optional(result.disclaimer)]
        ELSE [NoParts EXCEPT !.text = When(error # Null, <<JsString(error)>>)])

(***************************************************************************)
(* The answers the renderers are studied on: the bodies of a 200 response  *)
(* and the failures.                                                       *)
(***************************************************************************)
EmptyResponse ==
    [medicine_name |-> undefined, generic_name |-> undefined, manufacturer |-> undefined,
     ai_explanation |-> undefined, description |-> undefined, explanation |-> undefined,
     uses |-> undefined, side_effects |-> undefined, warnings |-> undefined,
     disclaimer |-> undefined]

FullResponse ==
    [medicine_name |-> JsString("Panadol"), generic_name |-> JsString("Paracetamol"),
     manufacturer |-> JsString(NA),
     ai_explanation |-> undefined, description |-> JsString("Description text"),
     explanation |-> undefined,
     uses |-> JsString("Pain relief"),
     side_effects |-> JsArray(<<JsString("Nausea"), JsString("Rash")>>),
     warnings |-> JsString("Keep away from children"),
     disclaimer |-> JsString("Educational use only")]

TextValues(text) == {undefined, JsString(""), JsString(text)}

UsesValues ==
    {undefined, JsNull, JsString(""), JsString(NA), JsString(NotAvailable),
     JsString("Pain relief"), JsNumber("5"), JsArray(<<JsString("Pain relief")>>)}

SideEffectsValues ==
    {undefined, JsNull, JsString(""), JsString("Nausea"), JsString(NotAvailable),
     JsNumber("5"), JsArray(<<>>), JsArray(<<JsString(NotAvailable)>>),
     JsArray(<<JsString("Nausea")>>),
     JsArray(<<JsString("Nausea"), JsString("Rash")>>),
     JsArray(<<JsString("Rash"), JsString("Nausea")>>),
     JsArray(<<JsString("Nausea"), JsString(NotAvailable)>>),
     JsArray(<<JsString(NotAvailable), JsString("Nausea")>>),
     JsArray(<<JsObject>>)}

NameValues == {undefined, JsNumber("5"), JsArray(<<JsString("Panadol")>>), JsObject}

Responses ==
    {EmptyResponse, FullResponse}
    \cup { [FullResponse EXCEPT !.ai_explanation = a, !.description = d, !.explanation = x] :
             a \in TextValues("AI text"), d \in TextValues("Description text"),
             x \in TextValues("Explanation text") }
    \cup { [FullResponse EXCEPT !.uses = u] : u \in UsesValues }
    \cup { [FullResponse EXCEPT !.side_effects = s] : s \in SideEffectsValues }
    \cup { [EmptyResponse EXCEPT !.side_effects = s] : s \in SideEffectsValues }
    \cup { [FullResponse EXCEPT !.medicine_name = n] : n \in NameValues }

NoError == [message |-> "", suggestion |-> "", errMessage |-> "", status |-> 200]

Answers ==
    { [ok |-> TRUE, data |-> d, err |-> NoError] : d \in Responses }
    \cup { [ok |-> FALSE, data |-> EmptyResponse, err |-> e] : e \in AxiosErrors }

\* before an answer is studied, and before a renderer has run
NoAnswer == [ok |-> FALSE, data |-> Null, err |-> Null]
NothingShown == [by |-> "none", view |-> Null]

\* ChatBox.handleSubmit: the aiMessage of the try branch
aiMessage(response) ==
    [type |-> "ai",
     content |-> JsOr(response.ai_explanation,
                      JsOr(response.description,
                           JsOr(response.explanation, JsString(NoExplanation)))),
     error |-> FALSE, hasData |-> TRUE, data |-> response]

\* ChatBox.handleSubmit: the errorMessage of the catch branch
errorMessage(e) ==
    [type |-> "ai", content |-> JsString(ErrorMessage(e, 0).content),
     error |-> TRUE, hasData |-> FALSE, data |-> EmptyResponse]

\* the answer arrives in ChatBox and its message is rendered
RenderChatAnswer ==
    /\ shown' = [by |-> "chat",
                 view |-> MessageBubble(IF answer.ok THEN aiMessage(answer.data)
                                                     ELSE errorMessage(answer.err))]
    /\ UNCHANGED <<answer, autoComplete, directory, otherTab, voiceInput>>
    /\ UNCHANGED appVars

\* the answer arrives in ImageUploader: setResult(response) or setError(...)
RenderImageAnswer ==
    /\ shown' = [by |-> "image",
                 view |-> IF answer.ok
                            THEN ImageUploaderView(Null, TRUE, answer.data)
                            ELSE ImageUploaderView(UploadErrorText(answer.err, ImageFallback),
                                                   FALSE, EmptyResponse)]
    /\ UNCHANGED <<answer, autoComplete, directory, otherTab, voiceInput>>
    /\ UNCHANGED appVars

\* the answer arrives in CameraCapture
RenderCameraAnswer ==
    /\ shown' = [by |-> "camera",
                 view |-> IF answer.ok
                            THEN CameraCaptureView(Null, TRUE, answer.data)
                            ELSE CameraCaptureView(UploadErrorText(answer.err, CameraFallback),
                                                   FALSE, EmptyResponse)]
    /\ UNCHANGED <<answer, autoComplete, directory, otherTab, voiceInput>>
    /\ UNCHANGED appVars

(***************************************************************************)
(* AutoComplete.  Names and inputs are sequences of characters, so that    *)
(* case and substrings are what they are in the code.                      *)
(***************************************************************************)
SuggestionLimit == 5

toLowerCase(s) ==
    [i \in 1..Len(s) |-> CASE s[i] = "A" -> "a" [] s[i] = "B" -> "b" [] OTHER -> s[i]]

\* s.startsWith(x)
startsWith(s, x) == Len(x) <= Len(s) /\ SubSeq(s, 1, Len(x)) = x

\* s.includes(x): x occurs at the head of s or somewhere in its tail
RECURSIVE includes(_, _)
includes(s, x) ==
    IF startsWith(s, x) THEN TRUE
    ELSE IF s = <<>> THEN FALSE
    ELSE includes(Tail(s), x)

\* list.filter(med => med.toLowerCase().includes(value.toLowerCase()))
RECURSIVE filter(_, _)
filter(list, value) ==
    IF list = <<>> THEN <<>>
    ELSE IF includes(toLowerCase(Head(list)), toLowerCase(value))
           THEN <<Head(list)>> \o filter(Tail(list), value)
           ELSE filter(Tail(list), value)

\* list.slice(0, n)
slice(list, n) == SubSeq(list, 1, IF Len(list) < n THEN Len(list) ELSE n)

\* the directories the backend may serve and the texts the user may type
LongDirectory ==
    << <<"A", "b">>, <<"b">>, <<"a", "B", "a">>, <<"B", "A">>, <<"a">>,
       <<"c", "a">>, <<"A", "A">>, <<"c">> >>
Directories ==
    { <<>>, << <<"b">>, <<"A">> >>, << <<"a", "b">>, <<"a", "b">> >>,
      << <<"B">>, <<"b", "a">>, <<"c">> >>, LongDirectory }
Typed == { <<>>, <<"a">>, <<"A">>, <<"b">>, <<"a", "b">>, <<"B", "A">>, <<"c">>, <<"d">> }

\* value is the prop of the host; fetch is the position of fetchMedicines,
\* which the mount effect has called; fetches counts the calls of
\* getAllMedicines
AutoCompleteInit ==
    [value |-> <<>>, suggestions |-> <<>>, allMedicines |-> <<>>,
     showSuggestions |-> FALSE, fetch |-> "pending", fetches |-> 1]

\* an effect that keeps every match
FilterEffectUnsliced(ac) ==
    IF Len(ac.value) > 0
      THEN [ac EXCEPT !.suggestions = filter(ac.allMedicines, ac.value),
                      !.showSuggestions = Len(filter(ac.allMedicines, ac.value)) > 0]
      ELSE [ac EXCEPT !.suggestions = <<>>, !.showSuggestions = FALSE]

\* the effect on [value, allMedicines]
FilterEffect(ac) ==
    IF Len(ac.value) > 0
      THEN LET filtered == slice(filter(ac.allMedicines, ac.value), SuggestionLimit)
           IN  [ac EXCEPT !.suggestions = filtered,
                          !.showSuggestions = Len(filtered) > 0]
      ELSE [ac EXCEPT !.suggestions = <<>>, !.showSuggestions = FALSE]

\* an input change that asks for the directory again
AutoCompleteOnChangeRefetch(v) ==
    /\ v # autoComplete.value
    /\ autoComplete' = FilterEffect([autoComplete EXCEPT
                            !.value = v, !.fetch = "pending",
                            !.fetches = IF @ < 2 THEN @ + 1 ELSE @])
    /\ UNCHANGED <<directory, answer, shown, otherTab, voiceInput>>
    /\ UNCHANGED appVars

\* a directory that arrives without the effect on [value, allMedicines]
MedicinesFulfilledWithoutEffect ==
    /\ autoComplete.fetch = "pending"
    /\ autoComplete' = [autoComplete EXCEPT !.fetch = "fulfilled",
                                            !.allMedicines = directory]
    /\ UNCHANGED <<directory, answer, shown, otherTab, voiceInput>>
    /\ UNCHANGED appVars

\* the user types: the host's onChange stores the new value
AutoCompleteOnChange(v) ==
    /\ v # autoComplete.value
    /\ autoComplete' = FilterEffect([autoComplete EXCEPT !.value = v])
    /\ UNCHANGED <<directory, answer, shown, otherTab, voiceInput>>
    /\ UNCHANGED appVars

\* getAllMedicines resolves: setAllMedicines(data.medicines || [])
MedicinesFulfilled ==
    /\ autoComplete.fetch = "pending"
    /\ autoComplete' = FilterEffect([autoComplete EXCEPT !.fetch = "fulfilled",
                                                          !.allMedicines = directory])
    /\ UNCHANGED <<directory, answer, shown, otherTab, voiceInput>>
    /\ UNCHANGED appVars

\* getAllMedicines rejects: the catch only logs
MedicinesRejected ==
    /\ autoComplete.fetch = "pending"
    /\ autoComplete' = [autoComplete EXCEPT !.fetch = "rejected"]
    /\ UNCHANGED <<directory, answer, shown, otherTab, voiceInput>>
    /\ UNCHANGED appVars

\* a suggestion is clicked: onSelect(medicine), setShowSuggestions(false).
\* The host either stores the medicine as the new value or leaves the value;
\* the effect runs again only when the value changed.
handleSelect(i, stores) ==
    /\ autoComplete.showSuggestions
    /\ i \in 1..Len(autoComplete.suggestions)
    /\ LET medicine == autoComplete.suggestions[i]
           hidden == [autoComplete EXCEPT !.showSuggestions = FALSE]
       IN  autoComplete' =
             IF stores /\ medicine # autoComplete.value
               THEN FilterEffect([hidden EXCEPT !.value = medicine])
               ELSE hidden
    /\ UNCHANGED <<directory, answer, shown, otherTab, voiceInput>>
    /\ UNCHANGED appVars

NextAutoComplete ==
    \/ \E v \in Typed : AutoCompleteOnChange(v)
    \/ MedicinesFulfilled
    \/ MedicinesRejected
    \/ \E i \in 1..SuggestionLimit, stores \in BOOLEAN : handleSelect(i, stores)

(***************************************************************************)
(* Specifications                                                          *)
(***************************************************************************)
(***************************************************************************)
(* A second tab of the same origin: its own Sidebar instance, the same     *)
(* localStorage item.  Its App passes no currentChatId either.  The tab    *)
(* is opened at any time: its mount effects interleave with the steps of   *)
(* the first tab.                                                          *)
(***************************************************************************)
OtherTabLoadEffect ==
    /\ otherTab.pc = "mounted"
    /\ otherTab' =
         IF Truthy(localStorage)
           THEN [otherTab EXCEPT !.pc = "loadRan", !.loaded = TRUE,
                                 !.pending = JSONparse(getItem)]
           ELSE [otherTab EXCEPT !.pc = "loadRan"]
    /\ UNCHANGED appVars
    /\ UNCHANGED <<autoComplete, directory, answer, shown, voiceInput>>

OtherTabSaveEffect ==
    /\ otherTab.pc = "loadRan"
    /\ localStorage' = setItem(JSONstringify(otherTab.chatHistory))
    /\ otherTab' = [otherTab EXCEPT !.pc = IF otherTab.loaded THEN "rerender" ELSE "idle"]
    /\ UNCHANGED <<app, chatBox, imageUploader, cameraCapture, sidebar,
                   requests, nextReq, startCalls, liveStreams, nextStream>>
    /\ UNCHANGED <<autoComplete, directory, answer, shown, voiceInput>>

OtherTabRerender ==
    /\ otherTab.pc = "rerender"
    /\ otherTab' = [otherTab EXCEPT !.pc = "idle", !.loaded = FALSE, !.pending = <<>>,
                                    !.chatHistory = otherTab.pending]
    /\ localStorage' = setItem(JSONstringify(otherTab.pending))
    /\ UNCHANGED <<app, chatBox, imageUploader, cameraCapture, sidebar,
                   requests, nextReq, startCalls, liveStreams, nextStream>>
    /\ UNCHANGED <<autoComplete, directory, answer, shown, voiceInput>>

\* the delete button of the entry chatId in the second tab, and the save
\* effect of its new list
OtherTabDeleteChat(chatId) ==
    /\ otherTab.pc = "idle"
    /\ \E i \in 1..Len(otherTab.chatHistory) : otherTab.chatHistory[i].id = chatId
    /\ otherTab' = [otherTab EXCEPT !.chatHistory = FilterOut(@, chatId), !.deleted = chatId]
    /\ localStorage' = setItem(JSONstringify(FilterOut(otherTab.chatHistory, chatId)))
    /\ UNCHANGED <<app, chatBox, imageUploader, cameraCapture, sidebar,
                   requests, nextReq, startCalls, liveStreams, nextStream>>
    /\ UNCHANGED <<autoComplete, directory, answer, shown, voiceInput>>

(***************************************************************************)
(* VoiceInput.  api: whether window has SpeechRecognition or               *)
(* webkitSpeechRecognition.  sessions: the recognition objects created by  *)
(* startListening, each at the last event it fired: "starting" after       *)
(* recognition.start(), then start, result, error, end.  heard: the calls  *)
(* of the onTranscript prop.  With continuous and interimResults false a   *)
(* session fires at most one result.                                       *)
(***************************************************************************)
Transcripts == { <<"a">>, <<"b">>, <<"a", "b">> }

VoiceInputInit(api) ==
    [api |-> api, listening |-> FALSE, supported |-> TRUE, sessions |-> <<>>,
     heard |-> <<>>]

\* what the component renders: null, or the button alone
VoiceInputView(vi) ==
    IF ~vi.supported
      THEN [button |-> FALSE, disabled |-> FALSE, label |-> Null]
      ELSE [button |-> TRUE, disabled |-> vi.listening,
            label |-> IF vi.listening THEN "mic Listening..." ELSE "mic"]

VoiceOff == <<app, chatBox, imageUploader, cameraCapture, sidebar, localStorage,
              requests, nextReq, startCalls, liveStreams, nextStream,
              autoComplete, directory, answer, shown, otherTab>>

\* a click on the button
startListening ==
    /\ VoiceInputView(voiceInput).button
    /\ ~VoiceInputView(voiceInput).disabled
    /\ Len(voiceInput.sessions) < MaxAttempts
    /\ voiceInput' =
         IF ~voiceInput.api
           THEN [voiceInput EXCEPT !.supported = FALSE]
           ELSE [voiceInput EXCEPT !.sessions = Append(@, "starting")]
    /\ UNCHANGED VoiceOff

onstart(i) ==
    /\ voiceInput.sessions[i] = "starting"
    /\ voiceInput' = [voiceInput EXCEPT !.sessions[i] = "start", !.listening = TRUE]
    /\ UNCHANGED VoiceOff

onresult(i, transcript) ==
    /\ voiceInput.sessions[i] = "start"
    /\ voiceInput' = [voiceInput EXCEPT !.sessions[i] = "result",
                                        !.heard = Append(@, [session |-> i, text |-> transcript]),
                                        !.listening = FALSE]
    /\ UNCHANGED VoiceOff

onerror(i) ==
    /\ voiceInput.sessions[i] \in {"starting", "start"}
    /\ voiceInput' = [voiceInput EXCEPT !.sessions[i] = "error", !.listening = FALSE]
    /\ UNCHANGED VoiceOff

onend(i) ==
    /\ voiceInput.sessions[i] \in {"start", "result", "error"}
    /\ voiceInput' = [voiceInput EXCEPT !.sessions[i] = "end", !.listening = FALSE]
    /\ UNCHANGED VoiceOff

InitApp ==
    /\ app = AppInit
    /\ chatBox = ChatBoxInit
    /\ imageUploader = ImageUploaderInit
    /\ cameraCapture = CameraCaptureInit
    /\ sidebar = SidebarInit
    /\ localStorage \in InitialStores
    /\ requests = {}
    /\ nextReq = 1
    /\ startCalls = {}
    /\ liveStreams = {}
    /\ nextStream = 1

Init ==
    /\ InitApp
    /\ autoComplete = AutoCompleteInit
    /\ directory = <<>>
    /\ answer = NoAnswer
    /\ shown = NothingShown
    /\ otherTab = SidebarInit
    /\ voiceInput = VoiceInputInit(TRUE)

\* first run: nothing stored yet
InitFresh == Init /\ localStorage = NoItem

NextMount == SidebarLoadEffect \/ SidebarSaveEffect

\* the tab buttons, Start Chatting and Back to Home
NextNavigate ==
    \/ \E t \in Tabs : SetActiveTab(t)
    \/ BackToHome
    \/ handleStartChat

NextApp == NextNavigate \/ handleNewChat

\* P, E: the success payloads and the failures the backend may answer with
NextChat(P, E) ==
    \/ \E v \in TextInputs : ChatSetInput(v)
    \/ handleSubmit
    \/ \E r \in requests, p \in P : QueryFulfilled(r, p)
    \/ \E r \in requests, e \in E : QueryRejected(r, e)

NextImage(P, E) ==
    \/ \E f \in Files \cup {0} : handleFileSelect(f)
    \/ handleUpload
    \/ \E r \in requests, p \in P : UploadFulfilled(r, p)
    \/ \E r \in requests, e \in E : UploadRejected(r, e)

NextCamera(P, E) ==
    \/ startCamera
    \/ \E c \in startCalls : CameraGranted(c)
    \/ \E c \in startCalls, msg \in CameraErrors : CameraDenied(c, msg)
    \/ stopCamera
    \/ \E f \in Frames : captureImage(f)
    \/ analyzeCapture
    \/ \E r \in requests, p \in P : AnalyzeFulfilled(r, p)
    \/ \E r \in requests, e \in E : AnalyzeRejected(r, e)
    \/ retake

NextSidebar ==
    \/ SidebarRerender
    \/ \E c \in ChatIds : handleDeleteChat(c)
    \/ Restart

\* one success and one failure are enough where the content of the answer
\* plays no part
OnePayload == { "P1" }
OneError == { e \in AxiosErrors : e.message # "" }

Next ==
    \/ NextMount \/ NextApp \/ NextSidebar
    \/ NextChat(Payloads, AxiosErrors)
    \/ NextImage(Payloads, AxiosErrors)
    \/ NextCamera(Payloads, AxiosErrors)

Spec == Init /\ [][Next]_vars

\* the text conversation
SpecChat == InitFresh /\ [][NextMount \/ NextApp \/ NextChat(Payloads, AxiosErrors)]_vars

\* the three dispatch paths
SpecDispatch ==
    InitFresh /\ [][\/ NextMount \/ NextNavigate
                    \/ NextChat(OnePayload, OneError)
                    \/ NextImage(OnePayload, OneError)
                    \/ NextCamera(OnePayload, OneError)]_vars

\* the camera state machine
SpecCamera == InitFresh /\ [][NextMount \/ NextApp \/ NextCamera(OnePayload, OneError)]_vars

\* the durable history, with restarts
SpecHistory ==
    Init /\ [][NextMount \/ NextApp \/ NextChat(OnePayload, OneError) \/ NextSidebar]_vars

\* the renderers, one answer at a time
InitRender ==
    /\ InitApp /\ localStorage = NoItem
    /\ autoComplete = AutoCompleteInit
    /\ directory = <<>>
    /\ answer \in Answers
    /\ shown = NothingShown
    /\ otherTab = SidebarInit
    /\ voiceInput = VoiceInputInit(TRUE)

NextRender == RenderChatAnswer \/ RenderImageAnswer \/ RenderCameraAnswer

SpecRender == InitRender /\ [][NextRender]_vars

\* AutoComplete in a host that passes it value, onChange and onSelect
InitSuggest ==
    /\ InitApp /\ localStorage = NoItem
    /\ autoComplete = AutoCompleteInit
    /\ directory \in Directories
    /\ answer = NoAnswer
    /\ shown = NothingShown
    /\ otherTab = SidebarInit
    /\ voiceInput = VoiceInputInit(TRUE)

SpecSuggest == InitSuggest /\ [][NextAutoComplete]_vars

\* two tabs on one stored history
NextTabs ==
    \/ NextMount \/ SidebarRerender
    \/ \E c \in ChatIds : handleDeleteChat(c)
    \/ OtherTabLoadEffect \/ OtherTabSaveEffect \/ OtherTabRerender
    \/ \E c \in ChatIds : OtherTabDeleteChat(c)

SpecTabs == Init /\ [][NextTabs]_vars

\* VoiceInput in a host that passes it onTranscript, in a browser with or
\* without speech recognition
InitVoice ==
    /\ InitApp /\ localStorage = NoItem
    /\ autoComplete = AutoCompleteInit
    /\ directory = <<>>
    /\ answer = NoAnswer
    /\ shown = NothingShown
    /\ otherTab = SidebarInit
    /\ voiceInput \in { VoiceInputInit(api) : api \in BOOLEAN }

NextVoice ==
    \/ startListening
    \/ \E i \in 1..Len(voiceInput.sessions) : onstart(i)
    \/ \E i \in 1..Len(voiceInput.sessions), t \in Transcripts : onresult(i, t)
    \/ \E i \in 1..Len(voiceInput.sessions) : onerror(i)
    \/ \E i \in 1..Len(voiceInput.sessions) : onend(i)

SpecVoice == InitVoice /\ [][NextVoice]_vars

(***************************************************************************)
(* Vocabulary of the properties                                            *)
(***************************************************************************)
Owners == {"chat", "image", "camera"}

Ids(set) == { x.id : x \in set }

\* requests whose continuation still reaches the state of a mounted instance
Own(owner) == { r \in requests : r.owner = owner /\ ~r.orphan }

Loading(owner) ==
    CASE owner = "chat" -> chatBox.loading
      [] owner = "image" -> imageUploader.loading
      [] owner = "camera" -> cameraCapture.loading

IsPrefix(s, t) == Len(s) <= Len(t) /\ SubSeq(t, 1, Len(s)) = s

StoredIds(store) == { StoredList(store)[i].id : i \in 1..Len(StoredList(store)) }

\* a step of handleDeleteChat(c)
DeleteStep(c) ==
    /\ sidebar.pc = "idle" /\ sidebar'.pc = "idle"
    /\ sidebar'.chatHistory # sidebar.chatHistory
    /\ sidebar'.chatHistory = FilterOut(sidebar.chatHistory, c)

(***************************************************************************)
(* C1 (original statement): every component has at most one backend        *)
(* request in flight at any time.                                          *)
(***************************************************************************)
C1_AtMostOneInFlightPerComponent ==
    \A o \in Owners : Cardinality({ r \in requests : r.owner = o }) <= 1

(***************************************************************************)
(* C1 (amended): while a mounted component is loading, no step issues a    *)
(* request for it or appends a user message, whatever else the user does;  *)
(* a mounted instance is loading exactly while one request of its own is   *)
(* in flight, and it never has two.  Requests of instances that were       *)
(* unmounted meanwhile are not counted: they stay in flight beside the     *)
(* request of the new instance.                                            *)
(***************************************************************************)
C1_LoadingBlocksSubmission ==
    /\ [](\A o \in Owners :
            /\ Cardinality(Own(o)) <= 1
            /\ Loading(o) <=> Own(o) # {})
    /\ [][\A o \in Owners :
            Loading(o) =>
              /\ { r \in requests' : r.owner = o } \subseteq
                   { r \in requests : r.owner = o }
                     \cup { [r EXCEPT !.orphan = TRUE] : r \in requests }
              /\ o = "chat" =>
                   \A i \in 1..Len(chatBox'.messages) :
                       chatBox'.messages[i].type = "user" =>
                       i <= Len(chatBox.messages)]_vars

\* C1 witness: an upload is in flight and the user has selected another file
C1_Witness ==
    \E r \in Own("image") :
        imageUploader.loading /\ imageUploader.selectedFile # r.file

(***************************************************************************)
(* C2: the log lists the user messages in submission order, and each user  *)
(* message is directly followed by the answer of its own request; only     *)
(* the last message can be an unanswered user message, and then its        *)
(* request is the one in flight.                                           *)
(***************************************************************************)
C2_LogFollowsSubmissionOrder ==
    LET m == chatBox.messages IN
    \A i \in 1..Len(m) :
        /\ m[i].type = "user" =>
             /\ i % 2 = 1
             /\ \A j \in 1..(i - 1) : m[j].type = "user" => m[j].turn < m[i].turn
             /\ i < Len(m) => m[i + 1].type = "ai" /\ m[i + 1].turn = m[i].turn
             /\ i = Len(m) => chatBox.loading /\ m[i].turn \in Ids(Own("chat"))
        /\ m[i].type = "ai" =>
             i > 1 /\ m[i - 1].type = "user" /\ m[i - 1].turn = m[i].turn

\* C2 witness: two answered turns
C2_Witness ==
    /\ Len(chatBox.messages) = 4
    /\ chatBox.messages[2].error /\ ~chatBox.messages[4].error

(***************************************************************************)
(* C3: the completion of the request of an accepted text submission        *)
(* appends exactly one assistant or error message of that turn to the      *)
(* conversation and sets loading to false, also after a tab switch or      *)
(* Back to Home.                                                           *)
(***************************************************************************)
C3_CompletionAppendsAnswer ==
    [][\A r \in requests :
          (r.owner = "chat" /\ r.id \notin Ids(requests')) =>
            /\ Len(chatBox'.messages) = Len(chatBox.messages) + 1
            /\ chatBox'.messages[Len(chatBox'.messages)].type = "ai"
            /\ chatBox'.messages[Len(chatBox'.messages)].turn = r.id
            /\ ~chatBox'.loading]_vars

(***************************************************************************)
(* C4: a step issues a request exactly when it is an accepted submission,  *)
(* and then it issues exactly one; in particular the failure of a request  *)
(* issues none.                                                            *)
(***************************************************************************)
AcceptedSubmission ==
    \/ /\ ChatMounted(app) /\ ~SubmitRejected(chatBox)
       /\ Len(chatBox'.messages) = Len(chatBox.messages) + 1
       /\ chatBox'.loading
    \/ /\ ImageMounted(app) /\ UploadButtonEnabled(imageUploader)
       /\ ImageMounted(app') /\ imageUploader'.loading
    \/ /\ CameraMounted(app) /\ AnalyzeButtonEnabled(cameraCapture)
       /\ CameraMounted(app') /\ cameraCapture'.loading

C4_OneRequestPerSubmission ==
    [][LET new == Ids(requests') \ Ids(requests)
       IN  /\ AcceptedSubmission => Cardinality(new) = 1
           /\ ~AcceptedSubmission => new = {}
           /\ nextReq' = nextReq + Cardinality(new)]_vars

\* C4 witness: a text query has failed and nothing is in flight
C4_Witness ==
    /\ Len(chatBox.messages) = 2 /\ chatBox.messages[2].error
    /\ ~chatBox.loading /\ requests = {} /\ nextReq = 2

(***************************************************************************)
(* C5: between New Chat steps the message log only grows: every step       *)
(* other than New Chat leaves the messages appended so far in place.       *)
(***************************************************************************)
C5_LogAppendOnly ==
    [][\/ app'.chatResetTrigger # app.chatResetTrigger
       \/ IsPrefix(chatBox.messages, chatBox'.messages)]_vars

(***************************************************************************)
(* C6: whenever the live view is shown, Stop leads to streaming = false    *)
(* with no live stream held by the component and none still to come.       *)
(***************************************************************************)
C6_StopAlwaysIdle ==
    (CameraMounted(app) /\ cameraCapture.streaming) =>
        /\ ~stopCameraState(cameraCapture).streaming
        /\ stopCameraState(cameraCapture).streamRef
             \notin stopCameraTracks(cameraCapture, liveStreams)

(***************************************************************************)
(* C7: a stream with unstopped tracks exists only while CameraCapture is   *)
(* mounted and shows the live view, and it is the stream of streamRef.     *)
(***************************************************************************)
C7_LiveStreamOnlyWhileStreaming ==
    liveStreams # {} =>
        /\ CameraMounted(app)
        /\ cameraCapture.streaming
        /\ liveStreams = {cameraCapture.streamRef}

(***************************************************************************)
(* C8: deleting the active session starts a new empty session and removes  *)
(* its id from the stored list.  The code carries no session id; by the    *)
(* data model a conversation with messages is an entry of the history, so  *)
(* when the ChatBox shows messages and the history has one entry, that     *)
(* entry is the active session.                                            *)
(***************************************************************************)
C8_DeleteActiveStartsNewSession ==
    [][\A c \in ChatIds :
          ( /\ DeleteStep(c)
            /\ sidebar.chatHistory = <<Summary(c)>>
            /\ chatBox.messages # <<>> ) =>
          /\ chatBox'.messages = <<>>
          /\ app'.showHero /\ app'.activeTab = "chat"
          /\ c \notin StoredIds(localStorage')]_vars

(***************************************************************************)
(* C9: the first accepted submission of a conversation adds the summary of *)
(* the session to the stored list and to the list of the sidebar.          *)
(***************************************************************************)
C9_FirstMessagePersistsSession ==
    [][(chatBox.messages = <<>> /\ Len(chatBox'.messages) = 1) =>
          /\ Len(StoredList(localStorage')) = Len(StoredList(localStorage)) + 1
          /\ sidebar'.chatHistory = StoredList(localStorage')]_vars

(***************************************************************************)
(* C10: a non-empty stored list is replaced by an empty one only by a      *)
(* delete, so that a restart at any point finds the last persisted list.   *)
(***************************************************************************)
C10_StoredListSurvives ==
    [][(StoredList(localStorage) # <<>> /\ StoredList(localStorage') = <<>>) =>
          \E c \in ChatIds : DeleteStep(c)]_vars

C12_ErrorTextFallbackOrder ==
    (shown.by # "none" /\ ~answer.ok) =>
        LET e == answer.err
            fallback == CASE shown.by = "chat" -> ChatFallback
                          [] shown.by = "image" -> ImageFallback
                          [] shown.by = "camera" -> CameraFallback
            text == IF e.message # "" THEN e.message
                    ELSE IF e.suggestion # "" THEN e.suggestion
                    ELSE fallback
        IN  /\ shown.view.parts.text.shown
            /\ shown.view.parts.text.body = <<JsString(text)>>

(***************************************************************************)
(* C13 (as stated): a text query that fails with no HTTP response, or for  *)
(* an unclassified reason, is shown with a text other than the             *)
(* check-the-spelling guidance that a no-match answer gets.                *)
(***************************************************************************)
C13_UnreachableIsNotNoMatch ==
    (shown.by = "chat" /\ ~answer.ok /\ answer.err.status # 404) =>
        \A e \in AxiosErrors :
            e.status = 404 => shown.view # MessageBubble(errorMessage(e))

(***************************************************************************)
(* C14: in the log of ChatBox every user message has a content that is not *)
(* empty once its white space is trimmed, and every error message has no   *)
(* data record.                                                            *)
(***************************************************************************)
C14_LogMessagesWellFormed ==
    \A i \in 1..Len(chatBox.messages) :
        LET m == chatBox.messages[i]
        IN  /\ m.type = "user" => \E j \in 1..Len(m.content) : m.content[j] # " "
            /\ m.error => (m.type = "ai" /\ m.data = Null)

\* a submitted text with white space around it, answered by an error
C14_Witness ==
    /\ Len(chatBox.messages) >= 2
    /\ chatBox.messages[1].type = "user"
    /\ chatBox.messages[1].content = <<" ", "a">>
    /\ chatBox.messages[2].error

(***************************************************************************)
(* C15 (as stated): the description of the structured assistant view is    *)
(* the first of ai_explanation, description, explanation that is present   *)
(* and not empty, and no description is shown only when none is.           *)
(***************************************************************************)
C15_DescriptionIsFirstPresent ==
    (shown.by = "chat" /\ answer.ok /\ ~shown.view.threw) =>
        LET d == answer.data
            present(v) == v.k = "string" /\ v.s # ""
            section == shown.view.parts.description
        IN  IF present(d.ai_explanation) THEN section = Show(<<d.ai_explanation>>)
            ELSE IF present(d.description) THEN section = Show(<<d.description>>)
            ELSE IF present(d.explanation) THEN section = Show(<<d.explanation>>)
            ELSE ~section.shown

(***************************************************************************)
(* C16: in the three renderers a uses text equal to "N/A" or to            *)
(* "Information not available" gives no Medical Uses section, and any      *)
(* other text that is not empty is shown as it is.                         *)
(***************************************************************************)
C16_UsesSuppression ==
    (shown.by # "none" /\ answer.ok /\ ~shown.view.threw) =>
        LET uses == answer.data.uses
            section == shown.view.parts.uses
        IN  uses.k = "string" =>
              IF uses.s \in {"", "N/A", "Information not available"}
                THEN ~section.shown
                ELSE section.shown /\ section.body = <<uses>>

\* the camera result view of an answer whose uses are "Information not
\* available": the other sections are there, Medical Uses is not
C16_Witness ==
    /\ shown.by = "camera" /\ answer.ok
    /\ answer.data.uses = JsString("Information not available")
    /\ shown.view.parts.description.shown
    /\ ~shown.view.parts.uses.shown

(***************************************************************************)
(* C17 (as stated): in the three renderers the Side Effects section is     *)
(* suppressed when side_effects is absent, an empty sequence, or a         *)
(* sequence that starts with "Information not available"; otherwise it     *)
(* shows every element in order.                                           *)
(***************************************************************************)
C17_SideEffectsSuppression ==
    (shown.by # "none" /\ answer.ok /\ ~shown.view.threw) =>
        LET se == answer.data.side_effects
            section == shown.view.parts.sideEffects
        IN  /\ se.k = "undefined" => ~section.shown
            /\ se.k = "array" =>
                  IF Len(se.a) = 0 \/ se.a[1] = JsString("Information not available")
                    THEN ~section.shown
                    ELSE section.shown /\ section.body = se.a

(***************************************************************************)
(* C18 (as stated): in every renderer a side_effects value that is one     *)
(* string is treated as the sequence of that one string: shown as one      *)
(* item, and suppressed when it is "Information not available".            *)
(***************************************************************************)
C18_ScalarSideEffectsAsSingleton ==
    (shown.by # "none" /\ answer.ok /\ ~shown.view.threw) =>
        LET se == answer.data.side_effects
            section == shown.view.parts.sideEffects
        IN  (se.k = "string" /\ se.s # "") =>
              IF se.s = "Information not available"
                THEN ~section.shown
                ELSE section.shown /\ section.body = <<se>>

(***************************************************************************)
(* C19 (as stated): for every success payload that is a JSON object,       *)
(* building and rendering the assistant message does not throw.            *)
(***************************************************************************)
C19_RenderingNeverThrows ==
    (shown.by = "chat" /\ answer.ok) => ~shown.view.threw

(***************************************************************************)
(* C20: for every directory and every input x the suggestion list is empty *)
(* and the box hidden when x is empty; otherwise the list has at most 5    *)
(* elements, each a name of the directory that contains x as a substring   *)
(* when case is ignored.                                                   *)
(***************************************************************************)
SameLetter(c, d) ==
    \/ c = d
    \/ {c, d} = {"a", "A"}
    \/ {c, d} = {"b", "B"}

\* x occurs in name from position p on, letter by letter, whatever the case
OccursAt(name, x, p) ==
    /\ p + Len(x) - 1 <= Len(name)
    /\ \A k \in 1..Len(x) : SameLetter(name[p + k - 1], x[k])

C20_SuggestionsMatchInput ==
    LET x == autoComplete.value
        list == autoComplete.suggestions
    IN  IF x = <<>>
          THEN list = <<>> /\ ~autoComplete.showSuggestions
          ELSE /\ Len(list) <= 5
               /\ \A i \in 1..Len(list) :
                     /\ \E j \in 1..Len(directory) : directory[j] = list[i]
                     /\ \E p \in 1..Len(list[i]) : OccursAt(list[i], x, p)

\* more than five names of the directory match "a"; five are suggested, one
\* of them in another case than the input
C20_Witness ==
    /\ autoComplete.value = <<"a">>
    /\ Len(autoComplete.suggestions) = 5
    /\ autoComplete.showSuggestions
    /\ autoComplete.suggestions[1] = <<"A", "b">>
    /\ Cardinality({ j \in 1..Len(directory) :
                       \E p \in 1..Len(directory[j]) : OccursAt(directory[j], <<"a">>, p) }) > 5

(***************************************************************************)
(* C21: getAllMedicines is called once in the life of AutoComplete,        *)
(* whatever is typed; when it fails the directory stays empty and every    *)
(* input has an empty suggestion list with the box hidden.                 *)
(***************************************************************************)
C21_FetchOnceAndFailureIsEmpty ==
    /\ autoComplete.fetches = 1
    /\ autoComplete.fetch = "rejected" =>
          /\ autoComplete.allMedicines = <<>>
          /\ autoComplete.suggestions = <<>>
          /\ ~autoComplete.showSuggestions

\* the fetch has failed and the user has typed a text that a name of the
\* backend's directory contains
C21_Witness ==
    /\ autoComplete.fetch = "rejected"
    /\ autoComplete.value = <<"a">>
    /\ \E j \in 1..Len(directory) : OccursAt(directory[j], <<"a">>, 1)
    /\ autoComplete.suggestions = <<>>

(***************************************************************************)
(* C28: once the fetch is settled the suggestion list is the first five    *)
(* names of the loaded directory that match the input, in directory order, *)
(* whether the text was typed before or after the directory arrived; for   *)
(* the empty input it is empty.                                            *)
(***************************************************************************)
C28_QuiescentSuggestions ==
    autoComplete.fetch # "pending" =>
        LET x == autoComplete.value
            all == autoComplete.allMedicines
            list == autoComplete.suggestions
            matching == IF x = <<>> THEN {}
                        ELSE { j \in 1..Len(all) :
                                 \E p \in 1..Len(all[j]) : OccursAt(all[j], x, p) }
            rank(j) == Cardinality({ k \in matching : k <= j })
        IN  /\ autoComplete.fetch = "fulfilled" => all = directory
            /\ Len(list) = IF Cardinality(matching) < 5 THEN Cardinality(matching) ELSE 5
            /\ \A j \in matching : rank(j) <= 5 => list[rank(j)] = all[j]

\* the directory has arrived and "b" has four suggestions, in the order of
\* the directory
C28_Witness ==
    /\ autoComplete.fetch = "fulfilled"
    /\ autoComplete.allMedicines = LongDirectory
    /\ autoComplete.value = <<"b">>
    /\ autoComplete.suggestions = << <<"A", "b">>, <<"b">>, <<"a", "B", "a">>, <<"B", "A">> >>

(***************************************************************************)
(* C22 (as stated): when the acquisition of the camera fails the component *)
(* is idle again (streaming false, no live stream held), shows the error   *)
(* of the capability, and offers Start Camera.                             *)
(***************************************************************************)
C22_DenialLeadsToIdle ==
    [][\A c \in startCalls :
          ( /\ ~c.orphan
            /\ startCalls' = startCalls \ {c}
            /\ liveStreams' = liveStreams ) =>
          /\ ~cameraCapture'.streaming
          /\ \E msg \in CameraErrors : cameraCapture'.error = CameraErrorText(msg)
          /\ cameraCapture'.streamRef \notin liveStreams'
          /\ cameraCapture'.captured = 0]_vars

(***************************************************************************)
(* C23 (as stated): the step that stores a captured still also leaves the  *)
(* live view and stops the tracks of the live stream.                      *)
(***************************************************************************)
C23_CaptureReleasesCamera ==
    [][( /\ cameraCapture'.captured # 0
         /\ cameraCapture'.captured # cameraCapture.captured ) =>
          /\ ~cameraCapture'.streaming
          /\ liveStreams' = {}]_vars

(***************************************************************************)
(* C24 (as stated): Stop and Retake, whenever their button is shown, lead  *)
(* to Idle: no live view, no stream held and no acquisition pending.       *)
(***************************************************************************)
C24_StopAndRetakeLeadToIdle ==
    CameraMounted(app) =>
        /\ cameraCapture.streaming =>
              /\ ~stopCameraState(cameraCapture).streaming
              /\ stopCameraTracks(cameraCapture, liveStreams) = {}
              /\ \A c \in startCalls : c.orphan
        /\ cameraCapture.captured # 0 =>
              ~retakeState(cameraCapture).streaming

(***************************************************************************)
(* C30 (as stated): streaming and captured are never both set.             *)
(***************************************************************************)
C30_NeverLiveAndCaptured ==
    ~(cameraCapture.streaming /\ cameraCapture.captured # 0)

(***************************************************************************)
(* C25: rejected input has no effect.  From a state whose text input is    *)
(* empty or white space, no step issues a text query or adds a user        *)
(* message; with no file selected no step issues an upload, and the        *)
(* uploader stays without loading, result and error; with no captured      *)
(* image no step issues an analysis.                                       *)
(***************************************************************************)
InputRejected(o) ==
    CASE o = "chat" -> \A j \in 1..Len(chatBox.input) : chatBox.input[j] = " "
      [] o = "image" -> imageUploader.selectedFile = 0
      [] o = "camera" -> cameraCapture.captured = 0

C25_RejectedInputIsNoOp ==
    [][\A o \in Owners :
          InputRejected(o) =>
            /\ { r.id : r \in { q \in requests' : q.owner = o } } \subseteq
                 { r.id : r \in { q \in requests : q.owner = o } }
            /\ o = "chat" =>
                 \A i \in 1..Len(chatBox'.messages) :
                     chatBox'.messages[i].type = "user" => i <= Len(chatBox.messages)
            /\ o = "image" =>
                 /\ ~imageUploader'.loading
                 /\ imageUploader'.result = Null
                 /\ imageUploader'.error = Null]_vars

\* a conversation is under way, the input holds one blank and nothing is
\* loading: the submit button is there to be pressed
C25_Witness ==
    /\ ChatMounted(app) /\ Ready
    /\ chatBox.input = <<" ">> /\ ~chatBox.loading
    /\ Len(chatBox.messages) = 2
    /\ requests = {}

(***************************************************************************)
(* C29: New Chat leaves an empty log and an empty input, and the answer to *)
(* a query submitted before it never enters the new conversation: every    *)
(* answer in the log follows the user message of its own submission.       *)
(***************************************************************************)
C29_NewChatStartsClean ==
    [][/\ app'.chatResetTrigger # app.chatResetTrigger =>
             chatBox'.messages = <<>> /\ chatBox'.input = <<>>
       /\ \A i \in 1..Len(chatBox'.messages) :
             chatBox'.messages[i].type = "ai" =>
               \E j \in 1..(i - 1) :
                  /\ chatBox'.messages[j].type = "user"
                  /\ chatBox'.messages[j].turn = chatBox'.messages[i].turn]_vars

\* after New Chat a new conversation has its first answer while the query
\* of the conversation before is still in flight
C29_Witness ==
    /\ app.chatResetTrigger = 1
    /\ Len(chatBox.messages) = 2
    /\ chatBox.messages[2].type = "ai"
    /\ \E r \in requests : r.owner = "chat" /\ r.orphan /\ r.id < chatBox.messages[1].turn

(***************************************************************************)
(* C26 (as stated): with two tabs on the same stored history, a session    *)
(* deleted in one tab is in the stored list no more, whatever the other    *)
(* tab writes later.                                                       *)
(***************************************************************************)
C26_DeletedStaysDeleted ==
    \A tab \in {sidebar, otherTab} :
       tab.deleted # 0 =>
         \A i \in 1..Len(StoredList(localStorage)) :
            StoredList(localStorage)[i].id # tab.deleted

(***************************************************************************)
(* C27 (as stated): after the speech capability was found missing or a     *)
(* recognition session fired error, the voice button is still offered for  *)
(* a retry.                                                                *)
(***************************************************************************)
C27_FailureKeepsVoiceButton ==
    ( \/ ~voiceInput.supported
      \/ \E i \in 1..Len(voiceInput.sessions) : voiceInput.sessions[i] = "error" ) =>
        VoiceInputView(voiceInput).button

(***************************************************************************)
(* C31 (as stated): at most one camera acquisition of the mounted          *)
(* CameraCapture is pending or held at any time: its getUserMedia calls    *)
(* not yet resolved, and the live stream streamRef holds, number one at    *)
(* most.                                                                   *)
(***************************************************************************)
C31_AtMostOneAcquisition ==
    LET pending == { c \in startCalls : ~c.orphan }
        held == { cameraCapture.streamRef } \cap liveStreams
    IN  Cardinality(pending) + Cardinality(held) <= 1

(***************************************************************************)
(* C32 (as stated): the result held by ImageUploader is the answer to the  *)
(* upload of the file now previewed, and the result held by CameraCapture  *)
(* is the answer to the upload of the still now shown.                     *)
(***************************************************************************)
C32_ResultBelongsToPreview ==
    /\ imageUploader.result # Null => imageUploader.resultOf = imageUploader.preview
    /\ cameraCapture.result # Null => cameraCapture.resultOf = cameraCapture.captured

(***************************************************************************)
(* C33 (as stated): ImageUploader and CameraCapture never hold a result    *)
(* and an error together.                                                  *)
(***************************************************************************)
C33_ResultXorError ==
    /\ ~(imageUploader.result # Null /\ imageUploader.error # Null)
    /\ ~(cameraCapture.result # Null /\ cameraCapture.error # Null)

(***************************************************************************)
(* C34 (as stated): VoiceInput has at most one recognition session active  *)
(* at a time: of the sessions started by a click, at most one has not yet  *)
(* fired result, error or end.                                             *)
(***************************************************************************)
C34_OneSessionAtATime ==
    Cardinality({ i \in 1..Len(voiceInput.sessions) :
                    voiceInput.sessions[i] \in {"starting", "start"} }) <= 1

====
